---- MODULE Spec2Model ----
(***************************************************************************)
(* A model of ba/_stats.py (Stats, PlayerRecord) and of ba/_general.py     *)
(* (Call, WeakCall, WeakMethod).                                           *)
(*                                                                         *)
(* Python objects are modelled by identity: a PlayerRecord is an index     *)
(* into the heap `recs`, Stats._player_records maps a name to such an      *)
(* index, a weak reference is the identity of its target together with     *)
(* the liveness of that target.                                            *)
(***************************************************************************)
EXTENDS Integers, Sequences, FiniteSets, Bags, TLC

\* ------------------------------------------------------------------ bounds
MaxRecords == 3      \* PlayerRecord objects ever allocated (SpecReset)
MaxScore   == 1      \* total of the scores up to which nonzero base points are submitted
MaxKills   == 2      \* kills submitted over all records (Spec, SpecReset)
MaxKilled  == 1      \* deaths tallied over all records
MaxRun     == 7      \* kills submitted over all records (SpecKill)
MaxRosterKills == 1  \* kills submitted over all records (SpecRoster)
MaxSpaz    == 2      \* spaz actors ever created (SpecKill)
MaxGameSpaz == 1     \* spaz actors ever created (Spec, SpecReset, SpecRoster)
MaxCalls   == 2      \* Call / WeakCall objects alive at a time (SpecCall)
MaxArgs    == 2      \* positional arguments stored in a Call / WeakCall
MaxExtra   == 1      \* positional arguments given when it is called

\* ------------------------------------------------------------ input domains
Players    == {"p1", "p2"}
Names      == {"a", "b"}
None       == "None"
Spaz(n)    == "s" \o ToString(n)

\* What a call hands back: nothing, a value, or an exception.
Void              == [kind |-> "None"]
Returned(type, v) == [kind |-> type, value |-> v]
Raised(exc)       == [kind |-> "raise", value |-> exc]

\* The step just taken: the method or callback that ran, the player or the
\* record (by index) it ran for, and what it handed back.
Ran(op, player, rec, outcome) ==
    [op |-> op, player |-> player, rec |-> rec, out |-> outcome]
Idle == Ran("None", None, 0, Void)

PlayerTeam(p)      == IF p = "p1" THEN "t1" ELSE "t2"
PlayerCharacter(p) == IF p = "p1" THEN "c1" ELSE "c2"

VARIABLES
    exists,          \* exists[p]: bool(player), the ba.Player still exists
    pname,           \* pname[p]: player.get_name()
    nspaz,           \* number of spaz actors created so far: they are 1..nspaz
    spazAlive,       \* the spaz actors whose Python object is still alive
    recs,            \* heap of PlayerRecord objects; the index is the identity
    player_records,  \* Stats._player_records: name -> index into recs
    bonuses,         \* bag of pending _ba.timer(300 + delay, Call(_apply, ...))
    ret              \* the call the step just taken made, and what it returned or raised

VARIABLES
    objAlive,        \* the instance (of FooClass, say) has not died
    objHeld,         \* a reference to the instance other than through a wrapper exists
    wrappers,        \* wrappers[w]: a live Call / WeakCall object, or None
    did_weak_call_warning,  \* _ba.app.did_weak_call_warning
    called,          \* the call the step just taken made: wrapper and extra arguments
    invoked,         \* the invocation of the wrapped function that call made
    result           \* what that call returned

statsVars == <<exists, pname, nspaz, spazAlive, recs, player_records, bonuses, ret>>
callVars == <<objAlive, objHeld, wrappers, did_weak_call_warning, called, invoked, result>>
vars == <<statsVars, callVars>>

\* ------------------------------------------------------------ PlayerRecord

\* Mutant: the weak reference is read as if its target could not die.
get_spaz_strong(r) == r.spaz

\* get_spaz: the weak reference's target, None once the actor has died.
get_spaz(r) ==
    IF r.spaz = None THEN None
    ELSE IF r.spaz \in spazAlive THEN r.spaz ELSE None

set_spaz(r, spaz) == [r EXCEPT !.spaz = spaz]

\* Mutant: the timer is left running.
cancel_multi_kill_timer_kept(r) == r

cancel_multi_kill_timer(r) == [r EXCEPT !.multi_kill_timer = FALSE]

\* Mutant: the record is made anew for the player.
associate_with_player_fresh(r, player) ==
    [r EXCEPT !.team = PlayerTeam(player),
              !.character = PlayerCharacter(player),
              !.last_player = player,
              !.player = player,
              !.spaz = None,
              !.streak = 0,
              !.score = 0,
              !.accumscore = 0]

associate_with_player(r, player) ==
    [r EXCEPT !.team = PlayerTeam(player),
              !.character = PlayerCharacter(player),
              !.last_player = player,
              !.player = player,
              !.spaz = None,
              !.streak = 0]

end_multi_kill(r) == [r EXCEPT !.multi_kill_timer = FALSE, !.multikillcount = 0]

get_last_player(r) == r.last_player

\* PlayerRecord.__init__
PlayerRecord(name, player) ==
    LET r0 == [name |-> name, score |-> 0, accumscore |-> 0,
               kill_count |-> 0, accum_kill_count |-> 0,
               killed_count |-> 0, accum_killed_count |-> 0,
               multi_kill_timer |-> FALSE, multikillcount |-> 0,
               last_player |-> None, player |-> None,
               team |-> None, character |-> None, spaz |-> None, streak |-> 0]
        r1 == associate_with_player(r0, player)
    IN  [r1 EXCEPT !.spaz = None, !.team = None, !.streak = 0]

\* Mutant: the chain goes on past the fifth kill.
MultiKillBonusUncapped(k) ==
    IF k = 1 THEN [named |-> FALSE, score |-> 0, delay |-> 0]
    ELSE IF k <= 6 THEN [named |-> TRUE, score |-> 20 * (k - 1), delay |-> 300 * (k - 2)]
    ELSE [named |-> TRUE, score |-> 100, delay |-> 1000]

\* The if/elif chain of submit_kill on the incremented _multikillcount.
MultiKillBonus(k) ==
    IF k = 1 THEN [named |-> FALSE, score |-> 0, delay |-> 0]
    ELSE IF k = 2 THEN [named |-> TRUE, score |-> 20, delay |-> 0]
    ELSE IF k = 3 THEN [named |-> TRUE, score |-> 40, delay |-> 300]
    ELSE IF k = 4 THEN [named |-> TRUE, score |-> 60, delay |-> 600]
    ELSE IF k = 5 THEN [named |-> TRUE, score |-> 80, delay |-> 900]
    ELSE [named |-> TRUE, score |-> 100, delay |-> 1000]

\* The timers submit_kill creates for record i: the deferred bonus, if any.
ScheduledBonus(i, k) ==
    LET b == MultiKillBonus(k)
    IN  IF b.named
        THEN SetToBag({[rec |-> i, k |-> k, score |-> b.score, after |-> 300 + b.delay]})
        ELSE EmptyBag

\* submit_kill's effect on the record itself.
submit_kill(r) ==
    [r EXCEPT !.multikillcount = @ + 1, !.multi_kill_timer = TRUE]

\* ------------------------------------------------------------------- Stats

Registered(p) == pname[p] \in DOMAIN player_records
RecOf(p) == player_records[pname[p]]

reset ==
    /\ recs' = [i \in DOMAIN recs |->
                  IF \E n \in DOMAIN player_records : player_records[n] = i
                  THEN cancel_multi_kill_timer(recs[i]) ELSE recs[i]]
    /\ player_records' = <<>>
    /\ ret' = Ran("reset", None, 0, Void)
    /\ UNCHANGED <<exists, pname, nspaz, spazAlive, bonuses>>

\* Mutant: the kill tally is reset with its per-round part.
ResetAccumRecordAndKills(r) ==
    [cancel_multi_kill_timer(r) EXCEPT !.accumscore = 0,
                                       !.accum_kill_count = 0,
                                       !.kill_count = 0,
                                       !.accum_killed_count = 0,
                                       !.streak = 0]

ResetAccumRecord(r) ==
    [cancel_multi_kill_timer(r) EXCEPT !.accumscore = 0,
                                       !.accum_kill_count = 0,
                                       !.accum_killed_count = 0,
                                       !.streak = 0]

reset_accum ==
    /\ recs' = [i \in DOMAIN recs |->
                  IF \E n \in DOMAIN player_records : player_records[n] = i
                  THEN ResetAccumRecord(recs[i]) ELSE recs[i]]
    /\ ret' = Ran("reset_accum", None, 0, Void)
    /\ UNCHANGED <<exists, pname, nspaz, spazAlive, player_records, bonuses>>

register_player(p) ==
    LET name == pname[p] IN
    /\ IF name \in DOMAIN player_records
       THEN /\ recs' = [recs EXCEPT ![player_records[name]] = associate_with_player(@, p)]
            /\ UNCHANGED player_records
       ELSE /\ recs' = Append(recs, PlayerRecord(name, p))
            /\ player_records' = (name :> (Len(recs) + 1)) @@ player_records
    /\ ret' = Ran("register_player", p, 0, Void)
    /\ UNCHANGED <<exists, pname, nspaz, spazAlive, bonuses>>

\* Mutant: every record is returned.
GetRecordsAll == [n \in DOMAIN player_records |-> player_records[n]]

\* The dict get_records builds.
GetRecords ==
    LET keep == {n \in DOMAIN player_records :
                    LET lastplayer == get_last_player(recs[player_records[n]])
                    IN  exists[lastplayer] /\ pname[lastplayer] = n}
    IN  [n \in keep |-> player_records[n]]

get_records ==
    /\ ret' = Ran("get_records", None, 0, Returned("dict", GetRecords))
    /\ UNCHANGED <<exists, pname, nspaz, spazAlive, recs, player_records, bonuses>>

KeyError(op, p) ==
    /\ ret' = Ran(op, p, 0, Raised("KeyError"))
    /\ UNCHANGED <<exists, pname, nspaz, spazAlive, recs, player_records, bonuses>>

player_got_new_spaz(p, spaz) ==
    IF ~Registered(p)
    THEN /\ ret' = Ran("player_got_new_spaz", p, 0, Raised("KeyError"))
         /\ UNCHANGED <<exists, pname, recs, player_records, bonuses>>
    ELSE IF get_spaz(recs[RecOf(p)]) # None
    THEN /\ ret' = Ran("player_got_new_spaz", p, RecOf(p), Raised("Exception"))
         /\ UNCHANGED <<exists, pname, recs, player_records, bonuses>>
    ELSE /\ recs' = [recs EXCEPT ![RecOf(p)] = set_spaz(@, spaz)]
         /\ ret' = Ran("player_got_new_spaz", p, RecOf(p), Void)
         /\ UNCHANGED <<exists, pname, player_records, bonuses>>

\* The caller creates a new spaz actor and reports it; an actor that was not
\* stored is referenced by nothing and is gone at once.
GotNewSpaz(p) ==
    LET spaz == Spaz(nspaz + 1) IN
    /\ player_got_new_spaz(p, spaz)
    /\ IF ret'.out.kind = "None"
       THEN nspaz' = nspaz + 1 /\ spazAlive' = spazAlive \cup {spaz}
       ELSE UNCHANGED <<nspaz, spazAlive>>

player_got_hit(p) ==
    IF ~Registered(p) THEN KeyError("player_got_hit", p)
    ELSE /\ recs' = [recs EXCEPT ![RecOf(p)].streak = 0]
         /\ ret' = Ran("player_got_hit", p, RecOf(p), Void)
         /\ UNCHANGED <<exists, pname, nspaz, spazAlive, player_records, bonuses>>

\* Mutant: the multi-kill bonus is added with the base points.
ScoredRecordWithBonus(r, base_points, kill) ==
    LET r1 == IF kill THEN submit_kill(r) ELSE r
        r2 == IF kill THEN [r1 EXCEPT !.accum_kill_count = @ + 1, !.kill_count = @ + 1]
              ELSE r1
        points == base_points + (IF kill THEN MultiKillBonus(r1.multikillcount).score ELSE 0)
    IN  [r2 EXCEPT !.score = @ + points, !.accumscore = @ + points]

ScoredRecord(r, base_points, kill) ==
    LET r1 == IF kill THEN submit_kill(r) ELSE r
        r2 == IF kill THEN [r1 EXCEPT !.accum_kill_count = @ + 1, !.kill_count = @ + 1]
              ELSE r1
        points == base_points
    IN  [r2 EXCEPT !.score = @ + points, !.accumscore = @ + points]

player_scored(p, base_points, kill) ==
    IF ~Registered(p) THEN KeyError("player_scored", p)
    ELSE LET i == RecOf(p) IN
         /\ recs' = [recs EXCEPT ![i] = ScoredRecord(@, base_points, kill)]
         /\ bonuses' = IF kill
                       THEN bonuses (+) ScheduledBonus(i, recs[i].multikillcount + 1)
                       ELSE bonuses
         /\ ret' = Ran("player_scored", p, i, Returned("int", base_points))
         /\ UNCHANGED <<exists, pname, nspaz, spazAlive, player_records>>

LostSpazRecord(r, killed) ==
    LET r1 == [set_spaz(r, None) EXCEPT !.streak = 0]
    IN  IF killed
        THEN [r1 EXCEPT !.accum_killed_count = @ + 1, !.killed_count = @ + 1]
        ELSE r1

player_lost_spaz(p, killed) ==
    IF ~Registered(p) THEN KeyError("player_lost_spaz", p)
    ELSE /\ recs' = [recs EXCEPT ![RecOf(p)] = LostSpazRecord(@, killed)]
         /\ ret' = Ran("player_lost_spaz", p, RecOf(p), Void)
         /\ UNCHANGED <<exists, pname, nspaz, spazAlive, player_records, bonuses>>

\* ------------------------------------------------- timers owned by the engine

\* The record's _multi_kill_timer goes off: it runs _end_multi_kill.
MultiKillTimerFires(i) ==
    /\ i \in DOMAIN recs
    /\ recs[i].multi_kill_timer
    /\ recs' = [recs EXCEPT ![i] = end_multi_kill(@)]
    /\ UNCHANGED <<exists, pname, nspaz, spazAlive, player_records, bonuses>>
    /\ ret' = Ran("_end_multi_kill", None, i, Void)

\* _apply: the bonus is awarded only if the spaz and its node can be had.
AppliedRecord(r, score2, nodeOk) ==
    IF get_spaz(r) # None /\ nodeOk
    THEN [r EXCEPT !.score = @ + score2, !.accumscore = @ + score2]
    ELSE r

BonusTimerFires(b, nodeOk) ==
    /\ BagIn(b, bonuses)
    /\ bonuses' = bonuses (-) SetToBag({b})
    /\ recs' = [recs EXCEPT ![b.rec] = AppliedRecord(@, b.score, nodeOk)]
    /\ UNCHANGED <<exists, pname, nspaz, spazAlive, player_records>>
    /\ ret' = Ran("_apply", None, b.rec, Void)

\* ------------------------------------------------------------- environment

\* A ba.Player that has left never exists again; its name is no longer read.
PlayerLeaves(p) ==
    /\ exists[p]
    /\ exists' = [exists EXCEPT ![p] = FALSE]
    /\ pname' = [pname EXCEPT ![p] = None]
    /\ UNCHANGED <<nspaz, spazAlive, recs, player_records, bonuses>>
    /\ ret' = Idle

\* An existing player's get_name() starts returning another name.
PlayerRenamed(p, n) ==
    /\ exists[p]
    /\ pname[p] # n
    /\ pname' = [pname EXCEPT ![p] = n]
    /\ UNCHANGED <<exists, nspaz, spazAlive, recs, player_records, bonuses>>
    /\ ret' = Idle

SpazDies(s) ==
    /\ s \in spazAlive
    /\ spazAlive' = spazAlive \ {s}
    /\ UNCHANGED <<exists, pname, nspaz, recs, player_records, bonuses>>
    /\ ret' = Idle

\* ------------------------------------------------- Call, WeakCall, WeakMethod

Obj == "foo"

\* What can be passed as args[0]: a plain function, or the bound method foo.bar.
Function    == [kind |-> "function", func |-> "f"]
BoundMethod == [kind |-> "method", func |-> "bar", self |-> Obj]
Callables   == {Function, BoundMethod}

\* Positional arguments are told apart by position and by origin.
StoredArgs == {[i \in 1..n |-> i] : n \in 0..MaxArgs}
ExtraArgs  == {[i \in 1..n |-> 10 + i] : n \in 0..MaxExtra}
Keywds     == {{}, {<<"namedarg", 7>>}}
NoWrapper  == [cls |-> "None"]
NotInvoked == [of |-> "None"]
NoCall     == [w |-> 0]

\* A step that calls no wrapper leaves no call to look at.
NothingCalled ==
    /\ called' = NoCall
    /\ invoked' = NotInvoked
    /\ result' = Void

\* hasattr(args[0], '__func__')
HasFunc(call) == call.kind = "method"

\* WeakMethod.__init__: the function, and a weak reference to the instance.
WeakMethod(call) == [kind |-> "WeakMethod", func |-> call.func, obj |-> call.self]

\* _Call.__init__
CallInit(call, args, keywds) ==
    [cls |-> "Call", call |-> call, args |-> args, keywds |-> keywds]

\* Mutant: the bound method is stored as it is, as _Call does.
WeakCallInitStrong(call, args, keywds) ==
    [cls |-> "WeakCall", call |-> call, args |-> args, keywds |-> keywds]

\* _WeakCall.__init__
WeakCallInit(call, args, keywds) ==
    [cls |-> "WeakCall",
     call |-> IF HasFunc(call) THEN WeakMethod(call) ELSE call,
     args |-> args, keywds |-> keywds]

\* The function's own behaviour: it returns a value that tells every input.
FuncResult(func, self, args, keywds) ==
    [of |-> func, self |-> self, args |-> args, keywds |-> keywds]

\* Mutant: WeakMethod.__call__ without the test of the dead target.
InvocationNoDeadTest(call, args, keywds) ==
    IF call.kind = "WeakMethod"
    THEN FuncResult(call.func, call.obj, args, keywds)
    ELSE IF call.kind = "method"
    THEN FuncResult(call.func, call.self, args, keywds)
    ELSE FuncResult(call.func, None, args, keywds)

\* self._call(*args, **keywds) for the three kinds of self._call: the
\* invocation made, or NotInvoked; the function returns what FuncResult says.
Invocation(call, args, keywds) ==
    IF call.kind = "WeakMethod"
    THEN IF ~objAlive[call.obj] THEN NotInvoked
         ELSE FuncResult(call.func, call.obj, args, keywds)
    ELSE IF call.kind = "method"
    THEN FuncResult(call.func, call.self, args, keywds)
    ELSE FuncResult(call.func, None, args, keywds)

\* Mutant: the call-time arguments before the stored ones.
WrapperCallExtraFirst(w, args_extra) ==
    Invocation(w.call, args_extra \o w.args, w.keywds)

\* _Call.__call__ and _WeakCall.__call__
WrapperCall(w, args_extra) ==
    Invocation(w.call, w.args \o args_extra, w.keywds)

\* The instances a wrapper keeps alive: the __self__ of a stored bound method.
StrongRefs(w) ==
    IF w = NoWrapper THEN {}
    ELSE IF w.call.kind = "method" THEN {w.call.self} ELSE {}

Referenced(o) ==
    objHeld[o] \/ \E i \in DOMAIN wrappers : o \in StrongRefs(wrappers[i])

FreeSlots == {i \in DOMAIN wrappers : wrappers[i] = NoWrapper}

\* Call(call, *args, **keywds), say as the callback of a timer.
NewCall(call, args, keywds) ==
    /\ HasFunc(call) => objAlive[call.self] /\ objHeld[call.self]
    /\ \E i \in FreeSlots :
          wrappers' = [wrappers EXCEPT ![i] = CallInit(call, args, keywds)]
    /\ UNCHANGED <<objAlive, objHeld, did_weak_call_warning>>
    /\ NothingCalled

\* WeakCall(call, *args, **keywds)
NewWeakCall(call, args, keywds) ==
    /\ HasFunc(call) => objAlive[call.self] /\ objHeld[call.self]
    /\ \E i \in FreeSlots :
          wrappers' = [wrappers EXCEPT ![i] = WeakCallInit(call, args, keywds)]
    /\ did_weak_call_warning' = (did_weak_call_warning \/ ~HasFunc(call))
    /\ UNCHANGED <<objAlive, objHeld>>
    /\ NothingCalled

\* wrapper(*args_extra)
CallWrapper(i, args_extra) ==
    /\ wrappers[i] # NoWrapper
    /\ called' = [w |-> i, extra |-> args_extra]
    /\ invoked' = WrapperCall(wrappers[i], args_extra)
    /\ result' = IF invoked'.of = "None" THEN Void ELSE Returned("result", invoked')
    /\ UNCHANGED <<objAlive, objHeld, wrappers, did_weak_call_warning>>

\* The wrapper object is dropped (its timer has fired or was cancelled).
DropWrapper(i) ==
    /\ wrappers[i] # NoWrapper
    /\ wrappers' = [wrappers EXCEPT ![i] = NoWrapper]
    /\ UNCHANGED <<objAlive, objHeld, did_weak_call_warning>>
    /\ NothingCalled

\* foo = None: the other references to the instance go away.
DropObject(o) ==
    /\ objHeld[o]
    /\ objHeld' = [objHeld EXCEPT ![o] = FALSE]
    /\ UNCHANGED <<objAlive, wrappers, did_weak_call_warning>>
    /\ NothingCalled

\* An instance nothing strong-references dies.
ObjectDies(o) ==
    /\ objAlive[o]
    /\ ~Referenced(o)
    /\ objAlive' = [objAlive EXCEPT ![o] = FALSE]
    /\ UNCHANGED <<objHeld, wrappers, did_weak_call_warning>>
    /\ NothingCalled

\* ------------------------------------------------------------ specification

\* The sum of one counter over every record of the heap.
Total(counter) ==
    LET RECURSIVE Sum(_)
        Sum(i) == IF i = 0 THEN 0 ELSE recs[i][counter] + Sum(i - 1)
    IN  Sum(Len(recs))

Init ==
    /\ exists = [p \in Players |-> TRUE]
    /\ pname = [p \in Players |-> IF p = "p1" THEN "a" ELSE "b"]
    /\ nspaz = 0
    /\ spazAlive = {}
    /\ recs = <<>>
    /\ player_records = <<>>
    /\ bonuses = EmptyBag
    /\ ret = Idle
    /\ objAlive = [o \in {Obj} |-> TRUE]
    /\ objHeld = [o \in {Obj} |-> TRUE]
    /\ wrappers = [i \in 1..MaxCalls |-> NoWrapper]
    /\ did_weak_call_warning = FALSE
    /\ called = NoCall
    /\ invoked = NotInvoked
    /\ result = Void

CanScore(pts, kill, maxKills) ==
    /\ pts = 0 \/ Total("score") + pts <= MaxScore
    /\ kill => Total("kill_count") < maxKills

CanRegister(p) == Registered(p) \/ Len(recs) < MaxRecords

CanLoseSpaz(killed) == killed => Total("killed_count") < MaxKilled

ActorDies == \E s \in spazAlive : SpazDies(s)

\* A game in progress: two players score, kill and are killed.
Next ==
    \/ reset_accum /\ UNCHANGED callVars
    \/ \E p \in Players : register_player(p) /\ UNCHANGED callVars
    \/ \E p \in Players : nspaz < MaxGameSpaz /\ GotNewSpaz(p) /\ UNCHANGED callVars
    \/ \E p \in Players, pts \in 0..1, kill \in BOOLEAN :
          CanScore(pts, kill, MaxKills) /\ player_scored(p, pts, kill)
          /\ UNCHANGED callVars
    \/ \E p \in Players, killed \in BOOLEAN :
          CanLoseSpaz(killed) /\ player_lost_spaz(p, killed)
          /\ UNCHANGED callVars
    \/ (\E i \in DOMAIN recs : MultiKillTimerFires(i)) /\ UNCHANGED callVars
    \/ (\E b \in BagToSet(bonuses), nodeOk \in BOOLEAN : BonusTimerFires(b, nodeOk))
          /\ UNCHANGED callVars
    \/ ActorDies /\ UNCHANGED callVars

Spec == Init /\ [][Next]_vars

\* Stats.reset between the kills of one player.
NextReset ==
    \/ reset /\ UNCHANGED callVars
    \/ reset_accum /\ UNCHANGED callVars
    \/ CanRegister("p1") /\ register_player("p1") /\ UNCHANGED callVars
    \/ nspaz < MaxGameSpaz /\ GotNewSpaz("p1") /\ UNCHANGED callVars
    \/ CanScore(0, TRUE, MaxKills) /\ player_scored("p1", 0, TRUE) /\ UNCHANGED callVars
    \/ (\E i \in DOMAIN recs : MultiKillTimerFires(i)) /\ UNCHANGED callVars
    \/ (\E b \in BagToSet(bonuses), nodeOk \in BOOLEAN : BonusTimerFires(b, nodeOk))
          /\ UNCHANGED callVars
    \/ ActorDies /\ UNCHANGED callVars

SpecReset == Init /\ [][NextReset]_vars

\* Players leave, are renamed and register again; nothing is reset and the
\* multi-kill timers stay pending.
NextRoster ==
    \/ \E p \in Players : exists[p] /\ register_player(p) /\ UNCHANGED callVars
    \/ get_records /\ UNCHANGED callVars
    \/ \E p \in Players : exists[p] /\ nspaz < MaxGameSpaz /\ GotNewSpaz(p) /\ UNCHANGED callVars
    \/ \E p \in Players, pts \in 0..1, kill \in BOOLEAN :
          exists[p] /\ CanScore(pts, kill, MaxRosterKills) /\ player_scored(p, pts, kill)
          /\ UNCHANGED callVars
    \/ \E p \in Players, killed \in BOOLEAN :
          exists[p] /\ CanLoseSpaz(killed) /\ player_lost_spaz(p, killed)
          /\ UNCHANGED callVars
    \/ \E p \in Players : PlayerLeaves(p) /\ UNCHANGED callVars
    \/ \E p \in Players, n \in Names : PlayerRenamed(p, n) /\ UNCHANGED callVars
    \/ ActorDies /\ UNCHANGED callVars

SpecRoster == Init /\ [][NextRoster]_vars

\* One player and the kills of its record.
NextKill ==
    \/ register_player("p1") /\ UNCHANGED callVars
    \/ nspaz < MaxSpaz /\ GotNewSpaz("p1") /\ UNCHANGED callVars
    \/ CanScore(0, TRUE, MaxRun) /\ player_scored("p1", 0, TRUE) /\ UNCHANGED callVars
    \/ player_lost_spaz("p1", FALSE) /\ UNCHANGED callVars
    \/ player_got_hit("p1") /\ UNCHANGED callVars
    \/ (\E i \in DOMAIN recs : MultiKillTimerFires(i)) /\ UNCHANGED callVars
    \/ (\E b \in BagToSet(bonuses), nodeOk \in BOOLEAN : BonusTimerFires(b, nodeOk))
          /\ UNCHANGED callVars
    \/ ActorDies /\ UNCHANGED callVars

SpecKill == Init /\ [][NextKill]_vars

\* The wrappers of _general.py around one instance and one plain function.
NextCall ==
    \/ \E c \in Callables, a \in StoredArgs, k \in Keywds : NewCall(c, a, k) /\ UNCHANGED statsVars
    \/ \E c \in Callables, a \in StoredArgs, k \in Keywds : NewWeakCall(c, a, k) /\ UNCHANGED statsVars
    \/ \E i \in 1..MaxCalls, e \in ExtraArgs : CallWrapper(i, e) /\ UNCHANGED statsVars
    \/ \E i \in 1..MaxCalls : DropWrapper(i) /\ UNCHANGED statsVars
    \/ DropObject(Obj) /\ UNCHANGED statsVars
    \/ ObjectDies(Obj) /\ UNCHANGED statsVars

SpecCall == Init /\ [][NextCall]_vars

\* ------------------------------------------------------------------ claims

\* The wrapper the step just taken called.
CalledWrapper == wrappers[called.w]

\* The wrapper was built from the bound method foo.bar.
BuiltFromMethod(w) == w # NoWrapper /\ w.call.func = BoundMethod.func

\* C1: a WeakCall built from a bound method, when called, invokes the method
\* on its instance while the instance is alive; once the instance has died
\* the call invokes nothing and returns None.
C1_WeakCallOfDeadIsNoOp ==
    (/\ called.w # 0
     /\ CalledWrapper.cls = "WeakCall"
     /\ BuiltFromMethod(CalledWrapper)) =>
            IF objAlive[Obj]
            THEN /\ invoked.of = BoundMethod.func
                 /\ invoked.self = Obj
                 /\ result.kind = "result"
            ELSE /\ invoked.of = "None"
                 /\ result.kind = "None"

C1_Witness ==
    /\ called.w # 0
    /\ CalledWrapper.cls = "WeakCall"
    /\ BuiltFromMethod(CalledWrapper)
    /\ ~objAlive[Obj]

\* C2: while a Call built from the bound method exists the instance is alive;
\* when no such Call exists and the other references are gone, the instance
\* is free to die, whatever WeakCalls still exist.
C2_Lifetime ==
    LET strong == \E i \in DOMAIN wrappers :
                     wrappers[i].cls = "Call" /\ BuiltFromMethod(wrappers[i])
    IN  /\ strong => objAlive[Obj]
        /\ (objAlive[Obj] /\ ~objHeld[Obj] /\ ~strong) => ENABLED ObjectDies(Obj)

C2_Witness ==
    /\ ~objAlive[Obj]
    /\ \E i \in DOMAIN wrappers :
          wrappers[i].cls = "WeakCall" /\ BuiltFromMethod(wrappers[i])

\* C3: calling Call(f, a1..an, k=v)(e1..em) invokes f(a1..an, e1..em, k=v)
\* and returns its result; so does a WeakCall of a bound method whose
\* instance is alive.
C3_CallForwardsArguments ==
    called.w # 0 =>
        LET w == CalledWrapper
            self == IF BuiltFromMethod(w) THEN Obj ELSE None
        IN  \/ ~(w.cls = "Call" \/ (BuiltFromMethod(w) /\ objAlive[Obj]))
            \/ /\ invoked.of = w.call.func
               /\ invoked.self = self
               /\ invoked.args = w.args \o called.extra
               /\ invoked.keywds = w.keywds
               /\ result.kind = "result"
               /\ result.value = FuncResult(w.call.func, self, w.args \o called.extra, w.keywds)

C3_Witness ==
    /\ called.w # 0
    /\ CalledWrapper.cls = "WeakCall"
    /\ BuiltFromMethod(CalledWrapper)
    /\ Len(CalledWrapper.args) = MaxArgs
    /\ Len(called.extra) = MaxExtra
    /\ CalledWrapper.keywds # {}
    /\ invoked.of = BoundMethod.func

\* The records Stats._player_records holds, and those it held before a reset.
Listed  == {player_records[n] : n \in DOMAIN player_records}
Dropped == DOMAIN recs \ Listed

\* C4: right after reset() no record is on the list, and for a record that
\* was on the list before a reset no multi-kill timer is left to go off:
\* _end_multi_kill never runs for it.
C4_ResetCancelsTimers ==
    /\ ret.op = "reset" => DOMAIN player_records = {}
    /\ \A i \in Dropped : ~recs[i].multi_kill_timer
    /\ ret.op = "_end_multi_kill" => ret.rec \notin Dropped

C4_Witness ==
    /\ ret.op = "reset"
    /\ \E i \in Dropped : recs[i].multikillcount > 0 /\ recs[i].kill_count = MaxKills

Counters(r) ==
    <<r.score, r.accumscore, r.kill_count, r.accum_kill_count,
      r.killed_count, r.accum_killed_count>>

\* C5: register_player(player) keeps a record that exists under the player's
\* name, with its six counters, and associates it with the player (team,
\* character, player, last player; spaz None, streak 0); otherwise it adds a
\* record under that name with all counters 0. No other record changes.
C5_RegisterKeepsRecord ==
    [][ret'.op = "register_player" =>
          LET p == ret'.player
              name == pname[p]
          IN  IF name \in DOMAIN player_records
              THEN LET i == player_records[name] IN
                   /\ player_records' = player_records
                   /\ DOMAIN recs' = DOMAIN recs
                   /\ Counters(recs'[i]) = Counters(recs[i])
                   /\ recs'[i].name = recs[i].name
                   /\ recs'[i].team = PlayerTeam(p)
                   /\ recs'[i].character = PlayerCharacter(p)
                   /\ recs'[i].player = p
                   /\ recs'[i].last_player = p
                   /\ recs'[i].spaz = None
                   /\ recs'[i].streak = 0
                   /\ \A j \in DOMAIN recs \ {i} : recs'[j] = recs[j]
              ELSE LET i == Len(recs) + 1 IN
                   /\ DOMAIN player_records' = DOMAIN player_records \cup {name}
                   /\ player_records'[name] = i
                   /\ \A n \in DOMAIN player_records :
                         player_records'[n] = player_records[n]
                   /\ DOMAIN recs' = DOMAIN recs \cup {i}
                   /\ Counters(recs'[i]) = <<0, 0, 0, 0, 0, 0>>
                   /\ recs'[i].name = name
                   /\ \A j \in DOMAIN recs : recs'[j] = recs[j]
      ]_vars

\* A player that left is replaced by another one under the same name: the
\* record, with what it had tallied, is now that player's.
C5_Witness ==
    /\ ret.op = "register_player"
    /\ ~exists["p1"]
    /\ ret.player = "p2"
    /\ \E i \in Listed :
          /\ i = player_records[pname["p2"]]
          /\ recs[i].last_player = "p2"
          /\ recs[i].character = PlayerCharacter("p2")
          /\ recs[i].score > 0
          /\ recs[i].kill_count > 0
          /\ recs[i].killed_count > 0
    /\ Cardinality(Listed) = 2

\* C6: player_scored(player, base_points, ...) for a registered player
\* returns base_points, which is by how much the score and the accumscore of
\* the player's record grow during the call; no other record changes.
C6_ScoredReturnsAwarded ==
    [][(ret'.op = "player_scored" /\ Registered(ret'.player)) =>
             LET p == ret'.player
                 i == player_records[pname[p]]
             IN
             /\ ret'.out.kind = "int"
             /\ \A base_points \in 0..1, kill \in BOOLEAN :
                   player_scored(p, base_points, kill) => ret'.out.value = base_points
             /\ recs'[i].score - recs[i].score = ret'.out.value
             /\ recs'[i].accumscore - recs[i].accumscore = ret'.out.value
             /\ DOMAIN recs' = DOMAIN recs
             /\ \A j \in DOMAIN recs \ {i} : recs'[j] = recs[j]
             /\ player_records' = player_records
      ]_vars

\* The call that submits the second kill of a run, which schedules a bonus.
C6_Witness ==
    /\ ret.op = "player_scored"
    /\ ret.out.kind = "int"
    /\ ret.out.value = 1
    /\ recs[ret.rec].score = 1
    /\ recs[ret.rec].multikillcount = 2
    /\ BagCardinality(bonuses) = 1
    /\ Cardinality(Listed) = 2

\* C7: reset_accum() zeroes accumscore, accum_kill_count, accum_killed_count
\* and streak of every record and cancels its multi-kill timer; the records
\* on the list, their score, kill_count, killed_count, spaz and association
\* with a player stay as they are.
C7_ResetAccumFrame ==
    [][ret'.op = "reset_accum" =>
          /\ player_records' = player_records
          /\ DOMAIN recs' = DOMAIN recs
          /\ \A i \in Listed :
                /\ recs'[i].accumscore = 0
                /\ recs'[i].accum_kill_count = 0
                /\ recs'[i].accum_killed_count = 0
                /\ recs'[i].streak = 0
                /\ ~recs'[i].multi_kill_timer
                /\ recs'[i].score = recs[i].score
                /\ recs'[i].kill_count = recs[i].kill_count
                /\ recs'[i].killed_count = recs[i].killed_count
                /\ recs'[i].spaz = recs[i].spaz
                /\ recs'[i].player = recs[i].player
                /\ recs'[i].last_player = recs[i].last_player
                /\ recs'[i].team = recs[i].team
                /\ recs'[i].character = recs[i].character
                /\ recs'[i].name = recs[i].name
      ]_vars

C7_Witness ==
    /\ ret.op = "reset_accum"
    /\ Cardinality(Listed) = 2
    /\ \E i \in Listed :
          /\ recs[i].score > 0
          /\ recs[i].kill_count > 0
          /\ recs[i].multikillcount > 0
          /\ recs[i].spaz # None
    /\ \E i \in Listed : recs[i].killed_count > 0

\* The record holds a spaz that is still alive.
HoldsLiveSpaz(r) == r.spaz # None /\ r.spaz \in spazAlive

\* C8: player_got_new_spaz(player, spaz) raises when the player's record
\* holds a live spaz and then leaves the record's spaz as it is; when the
\* record holds none (never set, cleared, or the actor has died) it stores
\* the new spaz.
C8_NewSpazTwiceRaises ==
    [][(ret'.op = "player_got_new_spaz" /\ ret'.rec # 0) =>
          LET i == ret'.rec IN
          IF HoldsLiveSpaz(recs[i])
          THEN /\ ret'.out.kind = "raise"
               /\ ret'.out.value = "Exception"
               /\ recs'[i].spaz = recs[i].spaz
          ELSE /\ ret'.out.kind = "None"
               /\ recs'[i].spaz = Spaz(nspaz + 1)
               /\ recs'[i].spaz \in spazAlive'
      ]_vars

\* The second spaz is stored over one that has died.
C8_Witness ==
    /\ ret.op = "player_got_new_spaz"
    /\ ret.out.kind = "None"
    /\ recs[ret.rec].spaz = Spaz(2)
    /\ Spaz(1) \notin spazAlive
    /\ recs[ret.rec].kill_count > 0

\* C9: get_records() returns the records on the list whose last player still
\* exists and is called what the record is listed under, those and no
\* others; it changes nothing.
C9_GetRecordsExisting ==
    [][ret'.op = "get_records" =>
          LET keep == {n \in DOMAIN player_records :
                          /\ exists[recs[player_records[n]].last_player]
                          /\ pname[recs[player_records[n]].last_player] = n}
          IN  /\ ret'.out.kind = "dict"
              /\ DOMAIN ret'.out.value = keep
              /\ \A n \in keep : ret'.out.value[n] = player_records[n]
              /\ UNCHANGED <<exists, pname, nspaz, spazAlive, recs, player_records, bonuses>>
      ]_vars

\* One record is returned, one is held back.
C9_Witness ==
    /\ ret.op = "get_records"
    /\ Cardinality(DOMAIN player_records) = 2
    /\ Cardinality(DOMAIN ret.out.value) = 1
    /\ exists["p1"] /\ exists["p2"]

Min(a, b) == IF a < b THEN a ELSE b

\* C10: the k-th kill of a run schedules nothing for k = 1 and, for k >= 2,
\* one bonus of min(20 (k - 1), 100) points after 300 ms plus 300 (k - 2) ms
\* up to k = 5, plus 1000 ms from k = 6 on.
C10_BonusSchedule ==
    [][(/\ ret'.op = "player_scored"
        /\ ret'.out.kind = "int"
        /\ recs'[ret'.rec].kill_count = recs[ret'.rec].kill_count + 1) =>
          LET i == ret'.rec
              k == recs'[i].multikillcount
          IN  /\ k = recs[i].multikillcount + 1
              /\ IF k = 1
                 THEN bonuses' = bonuses
                 ELSE bonuses' = bonuses (+) SetToBag({
                         [rec |-> i, k |-> k,
                          score |-> Min(20 * (k - 1), 100),
                          after |-> 300 + (IF k <= 5 THEN 300 * (k - 2) ELSE 1000)]})
      ]_vars

C10_Witness ==
    /\ ret.op = "player_scored"
    /\ ret.out.kind = "int"
    /\ recs[ret.rec].multikillcount = MaxRun
    /\ \E b \in BagToSet(bonuses) : b.k = MaxRun /\ b.score = 100 /\ b.after = 1300

====
